---- MODULE Spec2Model ----
(***************************************************************************)
(* Model of github.com/stgraber/ad2mqtt: the AlarmDecoder line parser      *)
(* (decoder/decoder.go, ParseMessage) and the line reader built on         *)
(* bufio.Scanner (decoder/decoder.go, AlarmDecoder.Read).                  *)
(*                                                                         *)
(* A Go string is modelled as a sequence of one-byte strings; Go indexes   *)
(* from 0, TLA+ from 1, so At(s, i) is Go's s[i].                          *)
(***************************************************************************)
EXTENDS Integers, Sequences, FiniteSets, TLC

VARIABLES
    s,          \* ParseMessage: the argument of the call
    ret,        \* ParseMessage: what the call produced (NotCalled before it)
    stream,     \* transport: all the bytes the device sends, in order
    cuts,       \* transport: the offsets of the stream at which a read may end
    pos,        \* transport: how many of them rw.Read has delivered
    nreads,     \* transport: how many calls of rw.Read have returned
    terr,       \* transport: the error the last call of rw.Read returned
    buf,        \* scanner: the bytes read and not yet consumed, buf[start:end]
    serr,       \* scanner: its sticky error (s.err), NoError for nil
    rpc,        \* AlarmDecoder.Read: "idle", "fill" (blocked in rw.Read), "crashed"
    handed,     \* the lines Read has passed to ParseMessage, in order
    out,        \* what the calls of Read have returned, in order
    wargs,      \* AlarmDecoder.Write: the arguments of its calls, in order
    wcalls,     \* transport: the arguments of the calls of rw.Write, in order
    werrs,      \* transport: the errors the calls of rw.Write returned
    wrets,      \* AlarmDecoder.Write: the errors its calls returned
    zones,      \* run: the configuration, zone code -> zone
    alarmState, \* run: the alarm state last published
    zoneState,  \* run: the table of triggered zones
    published,  \* MQTT: the calls of Publish made by run's loop, in order
    processed,  \* run: how many results of Read its loop has dealt with
    mpc,        \* run: "loop" while it runs, "returned" once it has returned
    cb,         \* mqttCallback: its last call, payload and bytes written
    ncb         \* mqttCallback: how many times it has been called

parserVars == <<s, ret>>
readerVars == <<stream, cuts, pos, nreads, terr, buf, serr, rpc, handed, out>>
writerVars == <<wargs, wcalls, werrs, wrets>>
runVars == <<zones, alarmState, zoneState, published, processed, mpc>>
callbackVars == <<cb, ncb>>
vars ==
    <<s, ret, stream, cuts, pos, nreads, terr, buf, serr, rpc, handed, out,
      wargs, wcalls, werrs, wrets,
      zones, alarmState, zoneState, published, processed, mpc, cb, ncb>>

\* Bounds of the model.
MaxSegments == 5    \* lines of 1..MaxSegments comma-separated segments
MaxPad == 1         \* bytes appended to a bit field beyond its 22
MaxStream == 4      \* length of the streams drawn over StreamBytes
MaxReads == 6       \* calls of Read in one run
MaxWrites == 2      \* calls of Write in one run
MaxMessages == 3    \* lines the device sends to the main loop
MaxCallbacks == 2   \* MQTT commands received

----------------------------------------------------------------------------
(* Go strings and the library functions ParseMessage uses.                 *)

\* Go's s[i] (zero-based index into a string).
At(str, i) == str[i + 1]

\* Go's s[lo:hi] (zero-based, hi exclusive); the caller checks the bounds.
Slice(str, lo, hi) == SubSeq(str, lo + 1, hi)

\* Index (zero-based) of the first sep in str, or -1: strings.Index.
RECURSIVE IndexFrom(_, _, _)
IndexFrom(str, sep, i) ==
    IF i >= Len(str) THEN -1
    ELSE IF At(str, i) = sep THEN i
    ELSE IndexFrom(str, sep, i + 1)

IndexByte(str, sep) == IndexFrom(str, sep, 0)

\* strings.Split(str, sep) for a one-byte separator: always at least one part.
RECURSIVE Split(_, _)
Split(str, sep) ==
    LET i == IndexByte(str, sep) IN
    IF i < 0 THEN <<str>>
    ELSE <<Slice(str, 0, i)>> \o Split(Slice(str, i + 1, Len(str)), sep)

DecimalDigits == <<"0", "1", "2", "3", "4", "5", "6", "7", "8", "9">>

IsDigit(c) == \E d \in 1..Len(DecimalDigits) : DecimalDigits[d] = c

DigitValue(c) == (CHOOSE d \in 1..Len(DecimalDigits) : DecimalDigits[d] = c) - 1

\* strconv.Atoi on the one-byte string bits[6:7]: a lone digit converts, any
\* other byte (a sign alone included) is a syntax error.
Atoi(str) ==
    IF Len(str) = 1 /\ IsDigit(str[1])
    THEN [ok |-> TRUE, n |-> DigitValue(str[1])]
    ELSE [ok |-> FALSE, n |-> 0]

\* unicode.IsSpace on the bytes of the model's alphabet.
IsSpace(c) == c \in {" ", "\t", "\n", "\r", "\f"}

RECURSIVE TrimLeft(_)
TrimLeft(str) ==
    IF str # <<>> /\ IsSpace(Head(str)) THEN TrimLeft(Tail(str)) ELSE str

RECURSIVE TrimRight(_)
TrimRight(str) ==
    IF str # <<>> /\ IsSpace(str[Len(str)])
    THEN TrimRight(SubSeq(str, 1, Len(str) - 1))
    ELSE str

\* strings.TrimSpace
TrimSpace(str) == TrimRight(TrimLeft(str))

----------------------------------------------------------------------------
(* decoder.go: Message and ParseMessage.                                   *)

\* Message{}: Go's zero value of the struct.
ZeroMessage ==
    [UnparsedMessage |-> <<>>,
     Ready |-> FALSE, ArmedAway |-> FALSE, ArmedHome |-> FALSE,
     BacklightOn |-> FALSE, ProgrammingMode |-> FALSE, Beeps |-> 0,
     ZoneBypassed |-> FALSE, ACPower |-> FALSE, ChimeEnabled |-> FALSE,
     AlarmHasOccured |-> FALSE, AlarmSounding |-> FALSE, BatteryLow |-> FALSE,
     EntryDelayDisabled |-> FALSE, Fire |-> FALSE, SystemIssue |-> FALSE,
     PerimeterOnly |-> FALSE, Mode |-> <<>>,
     Zone |-> <<>>, RawData |-> <<>>, KeypadMessage |-> <<>>]

\* The three ways a call of ParseMessage ends: a message and a nil error, the
\* zero message and an error, or a run-time panic (no return value at all).
Returned(m) == [kind |-> "ok", msg |-> m, err |-> "nil"]
Failed(e) == [kind |-> "error", msg |-> ZeroMessage, err |-> e]
Panicked(e) == [kind |-> "panic", msg |-> ZeroMessage, err |-> e]

ErrParts == "expected 4 parts"
ErrAtoi == "strconv.Atoi: invalid syntax"
PanicIndex == "index out of range"
PanicSlice == "slice bounds out of range"

\* len(parts) != 4 is the one check ParseMessage makes of the line's shape.
SegmentCountOK_AtLeast(parts) == Len(parts) >= 4

SegmentCountOK(parts) == Len(parts) = 4

\* A boolean flag: bits[k] == '1'.
Flag_NotZero(bits, k) == At(bits, k) # "0"

Flag(bits, k) == At(bits, k) = "1"

\* m.Mode = bits[18:19]
ModeOf_Position17(bits) == Slice(bits, 17, 18)

ModeOf(bits) == Slice(bits, 18, 19)

\* The keypad text: strings.TrimSpace(msg[1 : len(msg)-1]).
KeypadText_Untrimmed(msg) == Slice(msg, 1, Len(msg) - 1)

KeypadText(msg) == TrimSpace(Slice(msg, 1, Len(msg) - 1))

\* The message ParseMessage builds when no statement fails.
Decode(str, parts, beeps) ==
    LET bits == parts[1] IN
    [UnparsedMessage |-> str,
     Ready |-> Flag(bits, 1),
     ArmedAway |-> Flag(bits, 2),
     ArmedHome |-> Flag(bits, 3),
     BacklightOn |-> Flag(bits, 4),
     ProgrammingMode |-> Flag(bits, 5),
     Beeps |-> beeps,
     ZoneBypassed |-> Flag(bits, 7),
     ACPower |-> Flag(bits, 8),
     ChimeEnabled |-> Flag(bits, 9),
     AlarmHasOccured |-> Flag(bits, 10),
     AlarmSounding |-> Flag(bits, 11),
     BatteryLow |-> Flag(bits, 12),
     EntryDelayDisabled |-> Flag(bits, 13),
     Fire |-> Flag(bits, 14),
     SystemIssue |-> Flag(bits, 15),
     PerimeterOnly |-> Flag(bits, 16),
     Mode |-> ModeOf(bits),
     Zone |-> parts[2],
     RawData |-> parts[3],
     KeypadMessage |-> KeypadText(parts[4])]

\* ParseMessage, statement by statement: the first statement that fails
\* decides the outcome. An index or a slice bound beyond the string is a
\* run-time panic in Go.
ParseMessage(str) ==
    LET parts == Split(str, ",") IN
    IF ~SegmentCountOK(parts) THEN Failed(ErrParts)
    ELSE LET bits == parts[1]
             n == Atoi(Slice(bits, 6, 7))
         IN
         IF Len(bits) < 6 THEN Panicked(PanicIndex)            \* bits[1]..bits[5]
         ELSE IF Len(bits) < 7 THEN Panicked(PanicSlice)       \* bits[6:7]
         ELSE IF ~n.ok THEN Failed(ErrAtoi)
         ELSE IF Len(bits) < 17 THEN Panicked(PanicIndex)      \* bits[7]..bits[16]
         ELSE IF Len(bits) < 19 THEN Panicked(PanicSlice)      \* bits[18:19]
         ELSE IF Len(parts[4]) < 2 THEN Panicked(PanicSlice)   \* msg[1:len(msg)-1]
         ELSE Returned(Decode(str, parts, n.n))

----------------------------------------------------------------------------
(* The lines ParseMessage is applied to.                                   *)

Rep(c, n) == [i \in 1..n |-> c]

\* str with the byte at (zero-based) index i replaced by c; str itself when
\* it has no such index.
Subst(str, i, c) == IF i < Len(str) THEN [str EXCEPT ![i + 1] = c] ELSE str

RECURSIVE Join(_)
Join(parts) ==
    IF Len(parts) = 1 THEN parts[1]
    ELSE parts[1] \o <<",">> \o Join(Tail(parts))

\* The four lines of decoder_test.go, TestParse, by segment.
TestBits1 ==
    <<"[", "1", "0", "0", "0", "0", "6", "0", "1", "1", "0", "0", "0", "0",
      "0", "0", "0", "3", "A", "-", "-", "]">>
TestBits2 ==
    <<"[", "0", "0", "0", "0", "0", "0", "0", "0", "0", "1", "1", "0", "0",
      "0", "0", "0", "3", "A", "-", "-", "]">>
TestBits3 ==
    <<"[", "0", "0", "0", "0", "0", "0", "0", "0", "0", "0", "0", "0", "0",
      "1", "0", "0", "3", "A", "-", "-", "]">>
TestBits4 ==
    <<"[", "0", "0", "0", "0", "0", "0", "0", "0", "0", "0", "0", "0", "0",
      "0", "1", "0", "3", "A", "-", "-", "]">>
TestZone1 == <<"0", "4", "5">>
TestRaw1 ==
    <<"[", "f", "7", "1", "f", "0", "0", "0", "0", "0", "0", "4", "5", "0",
      "0", "1", "c", "2", "8", "0", "2", "0", "0", "0", "0", "0", "0", "0",
      "0", "0", "0", "]">>
TestKeypad1 ==
    <<"\"", "*", "*", "*", "*", "D", "I", "S", "A", "R", "M", "E", "D",
      "*", "*", "*", "*", " ", " ", "R", "E", "A", "D", "Y", " ", "T", "O",
      " ", "A", "R", "M", " ", " ", "\"">>
TestKeypad2 == <<"\"", "t", "e", "s", "t", "\"">>

\* A bit field with every flag '0' and one with every flag '1'.
ZeroBits == <<"[">> \o Rep("0", 16) \o <<"3", "A", "-", "-", "]">>
OneBits == <<"[">> \o Rep("1", 16) \o <<"F", "D", "x", "y", "]">>

\* Bytes tried at the positions of a bit field, and at position 6.
BitChars == {"0", "1", "8", "x"}
BeepChars == {"0", "1", "2", "3", "4", "5", "6", "7", "8", "9",
              "x", "A", "-", "+", " ", "]", "\""}

\* Bit fields of full length: up to two positions of a base replaced.
FullBits ==
    {Subst(Subst(base, i, c), j, d) :
        base \in {ZeroBits, OneBits}, i \in 1..20, j \in 1..20,
        c \in BitChars, d \in BitChars}
    \cup {Subst(base, 6, c) : base \in {ZeroBits, OneBits}, c \in BeepChars}
    \cup {TestBits1, TestBits2, TestBits3, TestBits4}

\* Bit fields cut short or padded: every length from 0 to 22 + MaxPad.
CutBits ==
    {SubSeq(base \o Rep("-", MaxPad), 1, n) :
        base \in {ZeroBits, TestBits1, Subst(ZeroBits, 6, "x")},
        n \in 0..(22 + MaxPad)}

Zones == {<<>>, TestZone1, <<"F", "F">>}
Raws == {<<>>, TestRaw1, <<"[", "]">>}
Keypads ==
    {<<>>, <<"\"">>, <<"\"", "\"">>, TestKeypad1, TestKeypad2,
     <<"x", " ", "a", " ", " ", "b", " ", "y">>,
     <<"\"", "a", ",", "b", "\"">>,
     <<"\"", " ", "\t", "a", " ", "b", "\r", "\"">>,
     <<" ", "\"", "a", "\"", " ">>,
     <<"\"", " ", " ", "\"">>}

\* Lines joined from a bit field, a zone, raw data and a keypad text: four
\* segments, or five when the keypad text holds a comma.
FourSegmentLines ==
    {Join(<<b, <<>>, <<>>, TestKeypad2>>) : b \in FullBits}
    \cup {Join(<<b, z, r, k>>) :
            b \in CutBits \cup {TestBits1, Subst(ZeroBits, 6, "9")},
            z \in Zones, r \in Raws, k \in Keypads}

\* Lines of 1..MaxSegments segments, the empty line among them.
Segments == {<<>>, ZeroBits, TestBits1, TestZone1, TestKeypad2, <<"[", "]">>}
SegmentLines ==
    {Join(parts) : parts \in UNION {[1..n -> Segments] : n \in 1..MaxSegments}}

ParseInputs == FourSegmentLines \cup SegmentLines

NotCalled == [kind |-> "none", msg |-> ZeroMessage, err |-> "nil"]

----------------------------------------------------------------------------
(* The specification of the parser: a line is drawn, ParseMessage is       *)
(* called on it once.                                                      *)

\* The reader before New is given a transport: nothing to read, nothing read.
ReaderUnused ==
    /\ stream = <<>>
    /\ cuts = {0}
    /\ pos = 0
    /\ nreads = 0
    /\ terr = "nil"
    /\ buf = <<>>
    /\ serr = "nil"
    /\ rpc = "idle"
    /\ handed = <<>>
    /\ out = <<>>

\* No call of Write yet.
WriterUnused ==
    /\ wargs = <<>>
    /\ wcalls = <<>>
    /\ werrs = <<>>
    /\ wrets = <<>>

\* A member of a JSON object as json.Unmarshal sees it: absent, null, a
\* string, or a value of another type (a number). The action's strings are
\* words, the code's are byte sequences.
ActionMember(kind, val) == [kind |-> kind, val |-> val]
CodeMember(kind, val) == [kind |-> kind, val |-> val]

\* An MQTT payload not yet received.
NoPayload ==
    [json |-> "none", action |-> ActionMember("absent", ""),
     code |-> CodeMember("absent", <<>>)]

\* No call of mqttCallback yet.
CallbackUnused ==
    /\ cb = [payload |-> NoPayload, wrote |-> <<>>]
    /\ ncb = 0

\* run has not been started: no configuration, nothing published.
RunUnused ==
    /\ zones = <<>>
    /\ alarmState = ""
    /\ zoneState = <<>>
    /\ published = <<>>
    /\ processed = 0
    /\ mpc = "loop"

ParseInit ==
    /\ s \in ParseInputs
    /\ ret = NotCalled
    /\ ReaderUnused
    /\ WriterUnused
    /\ RunUnused
    /\ CallbackUnused

CallParseMessage ==
    /\ ret = NotCalled
    /\ ret' = ParseMessage(s)
    /\ UNCHANGED s
    /\ UNCHANGED <<readerVars, writerVars, runVars, callbackVars>>

ParseNext == CallParseMessage

SpecParse == ParseInit /\ [][ParseNext]_vars

----------------------------------------------------------------------------
(* What the properties of the parser are stated with: the line's segments, *)
(* read off the line by the places of its commas.                          *)

Called == ret.kind # "none"

Commas(str) == {i \in 1..Len(str) : str[i] = ","}

SegmentCount(str) == Cardinality(Commas(str)) + 1

\* The place of the n-th comma of str (1-based), 0 for n = 0 and
\* Len(str) + 1 when str has fewer than n commas.
CommaAt(str, n) ==
    IF n = 0 THEN 0
    ELSE IF n > Cardinality(Commas(str)) THEN Len(str) + 1
    ELSE CHOOSE i \in Commas(str) :
            Cardinality({j \in Commas(str) : j < i}) = n - 1

\* The n-th comma-separated segment of str.
Segment(str, n) == SubSeq(str, CommaAt(str, n - 1) + 1, CommaAt(str, n) - 1)

\* The positions of the bit field that hold a boolean flag, and the field of
\* the message each one sets.
FlagPositions == (1..16) \ {6}

FlagAt(m, k) ==
    CASE k = 1 -> m.Ready
      [] k = 2 -> m.ArmedAway
      [] k = 3 -> m.ArmedHome
      [] k = 4 -> m.BacklightOn
      [] k = 5 -> m.ProgrammingMode
      [] k = 7 -> m.ZoneBypassed
      [] k = 8 -> m.ACPower
      [] k = 9 -> m.ChimeEnabled
      [] k = 10 -> m.AlarmHasOccured
      [] k = 11 -> m.AlarmSounding
      [] k = 12 -> m.BatteryLow
      [] k = 13 -> m.EntryDelayDisabled
      [] k = 14 -> m.Fire
      [] k = 15 -> m.SystemIssue
      [] k = 16 -> m.PerimeterOnly

\* The line has four segments and a bit field that covers position 18.
LongBitField == SegmentCount(s) = 4 /\ Len(Segment(s, 1)) >= 19

\* str without the white space at its two ends: the bytes from its first to
\* its last byte that is not white space.
Inner(str) ==
    LET solid == {i \in 1..Len(str) : ~IsSpace(str[i])} IN
    IF solid = {} THEN <<>>
    ELSE SubSeq(str, CHOOSE i \in solid : \A j \in solid : i <= j,
                     CHOOSE i \in solid : \A j \in solid : i >= j)

----------------------------------------------------------------------------
(* C1..C8: ParseMessage.                                                   *)

\* C1: a line of exactly 4 segments whose bit field has fewer than 19
\* characters makes ParseMessage return a parse error and no message; it
\* never ends in an index-out-of-range crash.
C1_TruncatedBitFieldIsError ==
    (Called /\ SegmentCount(s) = 4 /\ Len(Segment(s, 1)) < 19)
        => (ret.kind = "error" /\ ret.msg = ZeroMessage)

\* C2: a line of exactly 4 segments with a valid bit field whose keypad-text
\* segment has fewer than 2 characters makes ParseMessage return a parse
\* error and no message, not a crash on the slice that strips both ends.
C2_ShortKeypadTextIsError ==
    (Called /\ LongBitField /\ IsDigit(s[7]) /\ Len(Segment(s, 4)) < 2)
        => (ret.kind = "error" /\ ret.msg = ZeroMessage)

\* C3: a line whose number of comma-separated segments is not 4 makes
\* ParseMessage return an error and the zero-valued message: no field, not
\* even the raw line, is populated.
C3_WrongSegmentCount ==
    (Called /\ SegmentCount(s) # 4)
        => /\ ret.kind = "error"
           /\ ret.err = ErrParts
           /\ ret.msg = ZeroMessage
           /\ ret.msg.UnparsedMessage = <<>>

\* C3, its case: a keypad text that holds a comma makes a line of 5 segments,
\* which ParseMessage has refused.
C3_Witness ==
    /\ s = Join(<<TestBits1, <<>>, <<>>, <<"\"", "a", ",", "b", "\"">>>>)
    /\ SegmentCount(s) = 5
    /\ ret.kind = "error"

\* C4: in every line ParseMessage decodes, the flag of each boolean position
\* k (1-5, 7-16) is true exactly when the character at position k is '1';
\* any other character leaves it false, without an error.
C4_FlagIffOne ==
    ret.kind = "ok"
        => \A k \in FlagPositions : FlagAt(ret.msg, k) <=> (s[k + 1] = "1")

\* C4, its case: position 14 alone is '1', another position holds a character
\* that is neither '0' nor '1', and of all the flags only Fire is set.
C4_Witness ==
    /\ ret.kind = "ok"
    /\ s[15] = "1"
    /\ s[4] = "x"
    /\ \A k \in FlagPositions \ {3, 14} : s[k + 1] = "0"
    /\ \A k \in FlagPositions : FlagAt(ret.msg, k) <=> (k = 14)

\* C5: for a 4-segment line with a long-enough bit field, a character '0'..'7'
\* at position 6 makes ParseMessage succeed with Beeps equal to the digit, and
\* a character that is no decimal digit makes it return an error and no
\* message.
C5_BeepDigitDecodes ==
    (Called /\ LongBitField)
        => /\ (IsDigit(s[7]) /\ DigitValue(s[7]) <= 7)
                => (ret.kind = "ok" /\ ret.msg.Beeps = DigitValue(s[7]))
           /\ ~IsDigit(s[7])
                => (ret.kind = "error" /\ ret.msg = ZeroMessage)

\* C6: every message ParseMessage returns without error has a beep count in
\* 0..7, whatever the character at position 6 (the digits '8' and '9'
\* included).
C6_BeepsInRange == ret.kind = "ok" => ret.msg.Beeps \in 0..7

\* C7: in every line ParseMessage decodes, KeypadMessage is the fourth segment
\* less exactly one leading and one trailing character, whatever they are,
\* and less the white space at the two ends of what remains; white space
\* inside it is kept.
C7_KeypadText ==
    ret.kind = "ok"
        => LET msg == Segment(s, 4) IN
           ret.msg.KeypadMessage = Inner(SubSeq(msg, 2, Len(msg) - 1))

\* C7, its case: the segment is delimited by characters that are no quote
\* marks, and has white space at both ends and inside.
C7_Witness ==
    /\ ret.kind = "ok"
    /\ Segment(s, 4) = <<"x", " ", "a", " ", " ", "b", " ", "y">>
    /\ ret.msg.KeypadMessage = <<"a", " ", " ", "b">>

\* Characters put at positions 17, 19 and 20 of a bit field.
OtherChars == {"0", "1", "A", "x", "-", " ", "]", "\""}

\* C8: a decoded message is a projection of its line: UnparsedMessage is the
\* line, Zone the second segment, RawData the third, Mode the one character at
\* position 18; the characters at positions 17, 19 and 20 change no field but
\* UnparsedMessage.
C8_Projection ==
    ret.kind = "ok"
        => /\ ret.msg.UnparsedMessage = s
           /\ ret.msg.Zone = Segment(s, 2)
           /\ ret.msg.RawData = Segment(s, 3)
           /\ ret.msg.Mode = <<s[19]>>
           /\ \A p \in {17, 19, 20}, c \in OtherChars :
                p < Len(Segment(s, 1))
                    => LET other == ParseMessage(Subst(s, p, c)) IN
                       /\ other.kind = "ok"
                       /\ other.msg.UnparsedMessage = Subst(s, p, c)
                       /\ [other.msg EXCEPT !.UnparsedMessage = s] = ret.msg

\* C8, its case: the first line of TestParse, with brackets kept in RawData,
\* and a line whose position 18 is neither 'A' nor 'D'.
C8_Witness ==
    /\ ret.kind = "ok"
    /\ \/ /\ s = Join(<<TestBits1, TestZone1, TestRaw1, TestKeypad1>>)
          /\ ret.msg.RawData = TestRaw1
          /\ ret.msg.Mode = <<"A">>
       \/ /\ s[19] = "x"
          /\ ret.msg.Mode = <<"x">>
          /\ ret.msg.Zone = <<>>

----------------------------------------------------------------------------
(* decoder.go: AlarmDecoder.Read over bufio.NewScanner(rw), whose split     *)
(* function is bufio.ScanLines.                                            *)

NoError == "nil"
EOF == "io.EOF"
ErrTooLong == "bufio.Scanner: token too long"
ErrNoProgress == "multiple Read calls return no data or error"

\* Errors of the transport other than end-of-stream.
TransportErrors == {"EIO", "ENXIO"}

\* bufio.MaxScanTokenSize, the limit of the buffer NewScanner sets.
MaxScanTokenSize == 65536

NoToken == [ok |-> FALSE, text |-> <<>>]
Token(text) == [ok |-> TRUE, text |-> text]

\* bufio's dropCR: one trailing carriage return is not part of the line.
DropCR(data) ==
    IF Len(data) > 0 /\ data[Len(data)] = "\r"
    THEN SubSeq(data, 1, Len(data) - 1)
    ELSE data

\* How far ScanLines advances past a line whose newline is at index i.
AdvancePast_NotNewline(i) == i

AdvancePast(i) == i + 1

\* bufio.ScanLines: a newline-terminated line if data holds one; at the end of
\* the input the bytes left, if any, as a last line; else no token (more data
\* is asked for).
ScanLines(data, atEOF) ==
    LET i == IndexByte(data, "\n") IN
    IF atEOF /\ Len(data) = 0 THEN [advance |-> 0, token |-> NoToken]
    ELSE IF i >= 0
         THEN [advance |-> AdvancePast(i), token |-> Token(DropCR(Slice(data, 0, i)))]
    ELSE IF atEOF THEN [advance |-> Len(data), token |-> Token(DropCR(data))]
    ELSE [advance |-> 0, token |-> NoToken]

\* Scanner.setErr: the first error sticks; only io.EOF gives way to another.
SetErr(old, new) == IF old = NoError \/ old = EOF THEN new ELSE old

\* Scanner.Err: io.EOF is not reported as an error.
ScannerErr(e) == IF e = EOF THEN NoError ELSE e

\* What the scanner does with bytes read: they follow the bytes it holds.
Refill_Overwrite(held, data) == data

Refill(held, data) == held \o data

\* Scan as it would be if it cleared io.EOF on its way out.
ScanLoop_ForgetsEOF(b, e) ==
    LET split == ScanLines(b, e # NoError) IN
    IF (Len(b) > 0 \/ e # NoError) /\ split.token.ok
    THEN [state |-> "token", text |-> split.token.text,
          buf |-> Slice(b, split.advance, Len(b)), err |-> e]
    ELSE IF e # NoError
    THEN [state |-> "done", text |-> <<>>, buf |-> <<>>,
          err |-> IF e = EOF THEN NoError ELSE e]
    ELSE [state |-> "need", text |-> <<>>, buf |-> b, err |-> e]

\* Scanner.Scan from the top of its loop to its return or its next read of
\* the transport, holding bytes b under error e:
\*   "token": Scan returns true, Text() is text;
\*   "done":  Scan returns false;
\*   "need":  Scan goes on to read the transport.
ScanLoop(b, e) ==
    LET split == ScanLines(b, e # NoError) IN
    IF (Len(b) > 0 \/ e # NoError) /\ split.token.ok
    THEN [state |-> "token", text |-> split.token.text,
          buf |-> Slice(b, split.advance, Len(b)), err |-> e]
    ELSE IF e # NoError
    THEN [state |-> "done", text |-> <<>>, buf |-> <<>>, err |-> e]
    ELSE IF Len(b) >= MaxScanTokenSize
    THEN [state |-> "done", text |-> <<>>, buf |-> b, err |-> ErrTooLong]
    ELSE [state |-> "need", text |-> <<>>, buf |-> b, err |-> e]

\* Read as it would be if it looked at hasMsg before the scanner's error.
ReadResult_TokenFirst(scan) ==
    IF scan.state = "token" THEN ParseMessage(scan.text)
    ELSE IF ScannerErr(scan.err) # NoError THEN Failed(ScannerErr(scan.err))
    ELSE Failed(EOF)

\* Read as it would be if a line that does not parse ended the stream.
ReadResult_ParseErrorEndsStream(scan) ==
    IF ScannerErr(scan.err) # NoError THEN Failed(ScannerErr(scan.err))
    ELSE IF scan.state = "token" /\ ParseMessage(scan.text).kind # "error"
    THEN ParseMessage(scan.text)
    ELSE Failed(EOF)

\* AlarmDecoder.Read once Scan has returned: the scanner's error if it has
\* one, else the parse of the line, else io.EOF.
ReadResult(scan) ==
    IF ScannerErr(scan.err) # NoError THEN Failed(ScannerErr(scan.err))
    ELSE IF scan.state = "token" THEN ParseMessage(scan.text)
    ELSE Failed(EOF)

\* Read reaches ParseMessage exactly when Scan gave a line and no error.
ParsesLine(scan) == ScannerErr(scan.err) = NoError /\ scan.state = "token"

\* The rest of a call of Read, from the top of Scan's loop: it returns, or it
\* blocks in rw.Read. A panic of ParseMessage is not recovered: the program
\* ends.
Proceed(b, e) ==
    LET scan == ScanLoop(b, e) IN
    /\ buf' = scan.buf
    /\ serr' = scan.err
    /\ IF scan.state = "need"
       THEN /\ rpc' = "fill"
            /\ UNCHANGED <<handed, out>>
       ELSE /\ rpc' = IF ReadResult(scan).kind = "panic" THEN "crashed" ELSE "idle"
            /\ handed' = IF ParsesLine(scan) THEN Append(handed, scan.text) ELSE handed
            /\ out' = Append(out, ReadResult(scan))

\* The streams the device sends: every stream of up to MaxStream bytes over
\* StreamBytes, and the lines of the tests as newline-terminated frames.
StreamBytes == {"a", "\r", "\n"}

TestLine2 == Join(<<TestBits2, <<>>, <<>>, TestKeypad2>>)

\* A line of four segments whose position 6 is no digit.
BadBeepLine == <<"[", "0", "0", "0", "0", "0", "x", ",", ",", ",">>

FrameStreams ==
    {TestLine2 \o <<"\n">>,
     TestLine2 \o <<"\r", "\n">>,
     <<"a", ",", "\n">> \o BadBeepLine \o <<"\n">> \o TestLine2 \o <<"\n">>}

Streams ==
    UNION {[1..n -> StreamBytes] : n \in 0..MaxStream} \cup FrameStreams

\* The reader New returns over a transport that will send str and may end
\* its reads at the offsets c.
ReaderInit(str, c) ==
    /\ stream = str
    /\ cuts = c
    /\ pos = 0
    /\ nreads = 0
    /\ terr = NoError
    /\ buf = <<>>
    /\ serr = NoError
    /\ rpc = "idle"
    /\ handed = <<>>
    /\ out = <<>>

Init ==
    /\ s = <<>>
    /\ ret = NotCalled
    /\ \E str \in Streams : ReaderInit(str, 0..Len(str))
    /\ WriterUnused
    /\ RunUnused
    /\ CallbackUnused

\* The caller calls Read.
Read ==
    /\ rpc = "idle"
    /\ Len(out) < MaxReads
    /\ Proceed(buf, serr)
    /\ UNCHANGED <<stream, cuts, pos, nreads, terr>>
    /\ UNCHANGED <<parserVars, writerVars, runVars, callbackVars>>

\* rw.Read returns n more bytes of the stream and the error e, and Scan goes
\* on with them.
Deliver(n, e) ==
    /\ pos + n \in cuts
    /\ pos' = pos + n
    /\ nreads' = nreads + 1
    /\ terr' = IF e = ErrNoProgress THEN NoError ELSE e
    /\ Proceed(Refill(buf, SubSeq(stream, pos + 1, pos + n)), SetErr(serr, e))
    /\ UNCHANGED <<stream, cuts>>
    /\ UNCHANGED <<parserVars, writerVars, runVars, callbackVars>>

Remaining == Len(stream) - pos

\* rw.Read returns some bytes and no error.
TransportData ==
    /\ rpc = "fill"
    /\ \E n \in 1..Remaining :
        /\ n <= MaxScanTokenSize - Len(buf)
        /\ Deliver(n, NoError)

\* rw.Read returns the last bytes, or none, and io.EOF: the stream has ended.
TransportEOF ==
    /\ rpc = "fill"
    /\ Remaining <= MaxScanTokenSize - Len(buf)
    /\ Deliver(Remaining, EOF)

\* rw.Read fails, having read some bytes or none.
TransportFails ==
    /\ rpc = "fill"
    /\ \E n \in 0..Remaining, e \in TransportErrors :
        /\ n <= MaxScanTokenSize - Len(buf)
        /\ Deliver(n, e)

\* rw.Read keeps returning no bytes and no error: after 100 such reads in a
\* row Scan gives up with io.ErrNoProgress.
TransportStalls ==
    /\ rpc = "fill"
    /\ Deliver(0, ErrNoProgress)

Next ==
    \/ Read
    \/ TransportData
    \/ TransportEOF
    \/ TransportFails
    \/ TransportStalls

Spec == Init /\ [][Next]_vars

----------------------------------------------------------------------------
(* What the properties of the reader are stated with: the lines of a byte  *)
(* sequence, read off it by the places of its newlines.                    *)

Newlines(str) == {i \in 1..Len(str) : str[i] = "\n"}

\* The place of the n-th newline of str (1-based), 0 for n = 0.
NewlineAt(str, n) ==
    IF n = 0 THEN 0
    ELSE CHOOSE i \in Newlines(str) :
            Cardinality({j \in Newlines(str) : j < i}) = n - 1

\* The newline-terminated lines of str, each without its newline.
TerminatedLines(str) ==
    [n \in 1..Cardinality(Newlines(str)) |->
        SubSeq(str, NewlineAt(str, n - 1) + 1, NewlineAt(str, n) - 1)]

\* The bytes of str after its last newline.
Unterminated(str) ==
    SubSeq(str, NewlineAt(str, Cardinality(Newlines(str))) + 1, Len(str))

\* The lines of str once its end is known: the terminated ones and what
\* follows them, if anything does.
AllLines(str) ==
    TerminatedLines(str)
        \o (IF Unterminated(str) # <<>> THEN <<Unterminated(str)>> ELSE <<>>)

\* A line without the carriage return it ends with, if it ends with one.
WithoutCR(line) ==
    IF line # <<>> /\ line[Len(line)] = "\r"
    THEN [i \in 1..(Len(line) - 1) |-> line[i]]
    ELSE line

EachWithoutCR(lines) == [n \in 1..Len(lines) |-> WithoutCR(lines[n])]

IsPrefix(a, b) == Len(a) <= Len(b) /\ a = SubSeq(b, 1, Len(a))

\* The bytes the transport has delivered.
Delivered == SubSeq(stream, 1, pos)

\* The last call of Read returned io.EOF.
ReadSaysEOF == out # <<>> /\ out[Len(out)].err = EOF

\* The calls of Read that got as far as ParseMessage.
ParsingReads ==
    {i \in 1..Len(out) :
        out[i].kind \in {"ok", "panic"} \/ out[i].err \in {ErrParts, ErrAtoi}}

----------------------------------------------------------------------------
(* C9, C10: AlarmDecoder.Read.                                             *)

\* C9 as stated: however the transport splits the stream, the lines handed to
\* the parser by successive calls of Read are exactly the newline-delimited
\* lines of the stream, byte for byte and in order: none twice, none dropped,
\* none before its newline has arrived (what follows the last newline counts
\* as a line once the stream has ended).
C9_ExactNewlineLines ==
    /\ IsPrefix(handed, AllLines(stream))
    /\ serr # EOF => IsPrefix(handed, TerminatedLines(Delivered))
    /\ ReadSaysEOF => handed = AllLines(stream)

\* C9, amended: the lines handed to the parser by successive calls of Read
\* are the lines of the stream in order, each without its newline and without
\* one carriage return before it: one line for each call that reaches the
\* parser, none twice, none before its newline has arrived unless the stream
\* has ended, and all of them by the time Read returns io.EOF.
C9_ScannedLines ==
    /\ IsPrefix(handed, EachWithoutCR(AllLines(stream)))
    /\ serr # EOF => IsPrefix(handed, EachWithoutCR(TerminatedLines(Delivered)))
    /\ ReadSaysEOF => handed = EachWithoutCR(AllLines(stream))
    /\ Len(handed) = Cardinality(ParsingReads)

\* C9, its case: a line ending in CR LF and an unterminated one, delivered a
\* byte at a time, have both been handed to the parser and Read has returned
\* io.EOF.
C9_Witness ==
    /\ stream = <<"a", "\r", "\n", "a">>
    /\ nreads = 5
    /\ handed = <<(<<"a">>), (<<"a">>)>>
    /\ ReadSaysEOF

\* The stream is one newline-terminated frame.
OneFrame == Newlines(stream) = {Len(stream)}

\* What Read returns when rw.Read delivers all of str at once.
OneChunkRead(str) == ReadResult(ScanLoop(Refill(<<>>, str), NoError))

\* The message TestRead wants from its frame.
TestReadWant ==
    [ZeroMessage EXCEPT
        !.UnparsedMessage = TestLine2,
        !.AlarmHasOccured = TRUE,
        !.AlarmSounding = TRUE,
        !.Mode = <<"A">>,
        !.KeypadMessage = <<"t", "e", "s", "t">>]

\* C10: when the stream is one newline-terminated frame and the transport
\* does not fail, the first call of Read returns what it returns when the
\* frame comes in one chunk, in however many chunks it came, and no later
\* call returns a message.
C10_ChunkingIrrelevant ==
    (OneFrame /\ serr \in {NoError, EOF})
        => /\ Len(out) >= 1 => out[1] = OneChunkRead(stream)
           /\ \A i \in 2..Len(out) : out[i].kind = "error" /\ out[i].err = EOF

\* C10, its case: the frame of TestRead has come in two chunks and Read has
\* returned the message the test wants.
C10_Witness ==
    /\ stream = TestLine2 \o <<"\n">>
    /\ nreads = 2
    /\ Len(out) = 1
    /\ out[1].kind = "ok"
    /\ out[1].msg = TestReadWant
    /\ out[1] = OneChunkRead(stream)

----------------------------------------------------------------------------
(* C11..C13, C15: AlarmDecoder.Read, its errors.                           *)

\* The lines of the stream as the scanner cuts them.
StreamLines == EachWithoutCR(AllLines(stream))

\* The value Read returns beside the error e.
ErrorResult(e) == [kind |-> "error", msg |-> ZeroMessage, err |-> e]

\* The three lines of the longest frame stream: two segments, a beep count
\* that is no digit, and the line of TestRead.
ThreeLineStream ==
    <<"a", ",", "\n">> \o BadBeepLine \o <<"\n">> \o TestLine2 \o <<"\n">>

\* C11: a parse error is local to one line: the k-th call of Read that
\* reaches the parser returns what the parser makes of the k-th line of the
\* stream, error or message, whatever the lines before it were; the calls
\* that reach the parser are the first ones, one line each.
C11_ParseErrorIsLocal ==
    /\ ParsingReads = 1..Len(handed)
    /\ \A k \in 1..Len(handed) :
        /\ handed[k] = StreamLines[k]
        /\ out[k] = ParseMessage(StreamLines[k])
        /\ SegmentCount(StreamLines[k]) # 4 => out[k] = ErrorResult(ErrParts)

\* C11, its case: a line of two segments and a line with a bad beep count
\* have each given their parse error, and the Read after them has returned
\* the message of the third line, the stream having come in several reads.
C11_Witness ==
    /\ stream = ThreeLineStream
    /\ nreads >= 3
    /\ Len(out) = 3
    /\ out[1] = ErrorResult(ErrParts)
    /\ out[2] = ErrorResult(ErrAtoi)
    /\ out[3].kind = "ok"
    /\ out[3].msg = TestReadWant

\* C12: io.EOF is no parse error, it comes with no message, and once Read
\* has returned it every later call returns it too; when the transport has
\* reported the end of the stream, every call after those that parsed its
\* lines returns io.EOF.
C12_EOFIsFinal ==
    /\ EOF \notin {ErrParts, ErrAtoi}
    /\ \A i \in 1..Len(out) :
        out[i].err = EOF
            => \A j \in i..Len(out) : out[j] = ErrorResult(EOF)
    /\ (terr = EOF /\ rpc = "idle")
            => \A k \in (Len(StreamLines) + 1)..Len(out) : out[k] = ErrorResult(EOF)

\* C12, its case: the frame of TestRead has been parsed and the two calls
\* after it have both returned io.EOF.
C12_Witness ==
    /\ stream = TestLine2 \o <<"\n">>
    /\ Len(out) = 3
    /\ out[1].kind = "ok"
    /\ out[2] = ErrorResult(EOF)
    /\ out[3] = ErrorResult(EOF)

\* C13: when rw.Read has returned an error other than io.EOF, the call of
\* Read it was made for returns that very error and no message, and so does
\* every later call.
C13_TransportErrorUnchanged ==
    (terr \in TransportErrors /\ rpc # "fill")
        => (out # <<>> /\ out[Len(out)] = ErrorResult(terr))

\* C13, its case: rw.Read has delivered a whole line together with ENXIO, and
\* Read has returned ENXIO twice.
C13_Witness ==
    /\ stream = <<"a", "\n">>
    /\ pos = 2
    /\ terr = "ENXIO"
    /\ Len(out) = 2
    /\ out[1] = ErrorResult("ENXIO")
    /\ out[2] = ErrorResult("ENXIO")

\* C15: Read returns a transport error only after it has returned, as parse
\* results, all the newline-terminated lines the transport has delivered,
\* those of the failing read included.
C15_LinesBeforeTransportError ==
    (out # <<>> /\ out[Len(out)].err \in TransportErrors)
        => Len(handed) = Cardinality(Newlines(Delivered))

----------------------------------------------------------------------------
(* AlarmDecoder.Write, called while the reader reads.                      *)

\* Write as it would be if it framed the message with a newline.
Forwarded_WithNewline(msg) == msg \o <<"\n">>

\* What Write passes to rw.Write: its argument.
Forwarded(msg) == msg

\* What Write returns when rw.Write has returned (n, e): e, n is dropped.
WriteReturn(e) == e

\* The messages the callers write and the errors rw.Write returns.
WriteArgs == {<<>>, <<"#">>, <<"1", "\n">>}
WriteErrors == {NoError, "EIO"}

\* The streams read while the writes go on, and where their reads may end.
WriteStreams == {<<"a", "\n", "a">>, TestLine2 \o <<"\n">>}
WriteCuts(str) == IF Len(str) <= 3 THEN 0..Len(str) ELSE {0, 4, Len(str)}

WriteInit ==
    /\ s = <<>>
    /\ ret = NotCalled
    /\ \E str \in WriteStreams : ReaderInit(str, WriteCuts(str))
    /\ WriterUnused
    /\ RunUnused
    /\ CallbackUnused

\* A caller calls Write(msg), and rw.Write returns e. The callers of Write
\* and of Read are different goroutines: Write may come while Read is
\* blocked in rw.Read.
Write ==
    /\ Len(wargs) < MaxWrites
    /\ \E msg \in WriteArgs, e \in WriteErrors :
        /\ wargs' = Append(wargs, msg)
        /\ wcalls' = Append(wcalls, Forwarded(msg))
        /\ werrs' = Append(werrs, e)
        /\ wrets' = Append(wrets, WriteReturn(e))
    /\ UNCHANGED <<parserVars, readerVars, runVars, callbackVars>>

WriteNext ==
    \/ Write
    \/ Read
    \/ TransportData
    \/ TransportEOF
    \/ TransportFails
    \/ TransportStalls

SpecWrite == WriteInit /\ [][WriteNext]_vars

\* The bytes of a sequence of messages, one after the other.
RECURSIVE Concat(_)
Concat(msgs) ==
    IF msgs = <<>> THEN <<>> ELSE Head(msgs) \o Concat(Tail(msgs))

\* C14: the calls of rw.Write are the calls of Write, one for one and in
\* order, each with the argument unmodified, so the stream receives the
\* concatenation of the arguments; each Write returns the error its rw.Write
\* returned; a call of Write leaves the reader's state as it was, and the
\* Reads among the Writes return the parses of the stream's lines in order.
C14_WriteForwards ==
    /\ [](/\ wcalls = wargs
          /\ Concat(wcalls) = Concat(wargs)
          /\ wrets = werrs
          /\ \A k \in 1..Len(handed) : out[k] = ParseMessage(StreamLines[k]))
    /\ [][wargs' # wargs => UNCHANGED readerVars]_vars

\* C14, its case: "#" was written and failed, "1\n" was written and went
\* through, and the Reads around them returned the frame of TestRead and
\* then io.EOF.
C14_Witness ==
    /\ wargs = << <<"#">>, <<"1", "\n">> >>
    /\ wrets = <<"EIO", NoError>>
    /\ stream = TestLine2 \o <<"\n">>
    /\ nreads = 3
    /\ Len(out) = 2
    /\ out[1].msg = TestReadWant
    /\ out[2] = ErrorResult(EOF)

----------------------------------------------------------------------------
(* run: the loop that reads the device and publishes to MQTT.              *)

\* A zone of the configuration; the zero zone is what zones[k] gives for a
\* code the configuration does not have.
Zone(name, disabled) == [Name |-> name, Disabled |-> disabled]
ZeroZone == Zone(<<>>, FALSE)

\* Go's m[k] for the two maps of run, and m[k] = v.
ZoneOf(code) == IF code \in DOMAIN zones THEN zones[code] ELSE ZeroZone
StateOf(zs, k) == IF k \in DOMAIN zs THEN zs[k] ELSE FALSE
MapSet(m, k, v) == [x \in DOMAIN m \cup {k} |-> IF x = k THEN v ELSE m[x]]

\* newAlarmState as it would be if the armed flags were looked at first.
AlarmStateOf_ArmedFirst(m) ==
    IF m.ArmedHome THEN "armed_home"
    ELSE IF m.ArmedAway THEN "armed_away"
    ELSE IF m.AlarmSounding \/ m.AlarmHasOccured THEN "triggered"
    ELSE IF ~m.Ready THEN "pending"
    ELSE "disarmed"

\* newAlarmState, the alarm state of a message.
AlarmStateOf(m) ==
    IF m.AlarmSounding \/ m.AlarmHasOccured THEN "triggered"
    ELSE IF m.ArmedHome THEN "armed_home"
    ELSE IF m.ArmedAway THEN "armed_away"
    ELSE IF ~m.Ready THEN "pending"
    ELSE "disarmed"

\* The calls of mqttClient.Publish the loop makes: on the alarm's state topic,
\* and on the state topic built from a zone's name.
AlarmPublish(state) == [kind |-> "alarm", name |-> <<>>, payload |-> state]
ZonePublish(name, payload) == [kind |-> "zone", name |-> name, payload |-> payload]

\* Where the loop goes after a failed Read, as it would be if it gave up.
Continue_Returns == "returned"

\* Where the loop goes after a failed Read: `continue`.
Continue == "loop"

\* Zone codes and names, and two configurations: one names its zones by
\* other words than their codes, has a disabled zone and a zone without a
\* name; the other names its one zone by its code.
Code08 == <<"0", "8">>
Code09 == <<"0", "9">>
Code10 == <<"1", "0">>
NamedConfig ==
    [c \in {Code08, Code09, Code10} |->
        IF c = Code08 THEN Zone(<<"d", "o", "o", "r">>, FALSE)
        ELSE IF c = Code09 THEN Zone(<<"h", "a", "l", "l">>, TRUE)
        ELSE Zone(<<>>, FALSE)]
CodeNamedConfig == [c \in {Code08} |-> Zone(Code08, FALSE)]
Configs == {NamedConfig, CodeNamedConfig}

\* The lines the device sends: a zone faulted while the panel is not ready,
\* the panel ready with no zone, every flag set for the disabled zone, and a
\* line that does not parse.
ReadyBits == Subst(ZeroBits, 1, "1")
NoKeypad == <<"\"", "\"">>
PendingLine == Join(<<ZeroBits, Code08, <<>>, NoKeypad>>)
ReadyLine == Join(<<ReadyBits, <<>>, <<>>, NoKeypad>>)
AllFlagsLine == Join(<<OneBits, Code09, <<>>, NoKeypad>>)
BadLine == <<"a">>
RunLines == {PendingLine, ReadyLine, AllFlagsLine, BadLine}

RECURSIVE Frames(_)
Frames(lines) ==
    IF lines = <<>> THEN <<>>
    ELSE Head(lines) \o <<"\n">> \o Frames(Tail(lines))

RunStreams ==
    {Frames(lines) : lines \in UNION {[1..n -> RunLines] : n \in 1..MaxMessages}}

\* The transport hands over whole lines, one or several in a read.
RunCuts(str) == {0} \cup {i \in 1..Len(str) : str[i] = "\n"}

\* run as it enters its loop: the configuration is loaded, the decoder is
\* made, nothing is published by the loop yet.
RunInit ==
    /\ s = <<>>
    /\ ret = NotCalled
    /\ \E str \in RunStreams : ReaderInit(str, RunCuts(str))
    /\ WriterUnused
    /\ CallbackUnused
    /\ zones \in Configs
    /\ alarmState = ""
    /\ zoneState = <<>>
    /\ published = <<>>
    /\ processed = 0
    /\ mpc = "loop"

\* The result of Read the loop is dealing with, and its message.
Current == out[processed + 1]
msg == Current.msg

\* The zones still to clear in the range over zoneState: those set, other
\* than the message's. Go ranges over a map in no fixed order.
ToClear == {k \in DOMAIN zoneState : k # msg.Zone /\ zoneState[k]}

\* The loop calls ad.Read.
RunRead ==
    /\ mpc = "loop"
    /\ processed = Len(out)
    /\ Read

\* Read has returned an error: it is logged, and the loop goes on.
OnReadError ==
    /\ mpc = "loop"
    /\ processed < Len(out)
    /\ Current.kind = "error"
    /\ processed' = processed + 1
    /\ mpc' = Continue
    /\ UNCHANGED <<zones, alarmState, zoneState, published>>
    /\ UNCHANGED <<parserVars, readerVars, writerVars, callbackVars>>

\* Read has returned a message: the alarm state is computed, and published
\* when it is not the one held; run returns when Publish fails.
UpdateAlarm ==
    /\ mpc = "loop"
    /\ processed < Len(out)
    /\ Current.kind = "ok"
    /\ LET newAlarmState == AlarmStateOf(msg) IN
        IF newAlarmState # alarmState
        THEN /\ alarmState' = newAlarmState
             /\ published' = Append(published, AlarmPublish(newAlarmState))
             /\ mpc' \in {"zone", "returned"}
        ELSE /\ mpc' = "zone"
             /\ UNCHANGED <<alarmState, published>>
    /\ UNCHANGED <<zones, zoneState, processed>>
    /\ UNCHANGED <<parserVars, readerVars, writerVars, callbackVars>>

\* The zone of the message is looked up; unless it is disabled or its name
\* is set in zoneState, "on" is published for its name and the message's
\* zone code is set in zoneState.
HandleZone ==
    /\ mpc = "zone"
    /\ LET zone == ZoneOf(msg.Zone) IN
        IF ~zone.Disabled /\ ~StateOf(zoneState, zone.Name)
        THEN /\ published' = Append(published, ZonePublish(zone.Name, "on"))
             /\ \/ /\ mpc' = "quiet"
                   /\ zoneState' = MapSet(zoneState, msg.Zone, TRUE)
                \/ /\ mpc' = "returned"
                   /\ UNCHANGED zoneState
        ELSE /\ mpc' = "quiet"
             /\ UNCHANGED <<zoneState, published>>
    /\ UNCHANGED <<zones, alarmState, processed>>
    /\ UNCHANGED <<parserVars, readerVars, writerVars, callbackVars>>

\* The panel is ready: one more zone that was set is cleared, and "off" is
\* published for it if its name is not empty.
ClearZone ==
    /\ mpc = "quiet"
    /\ msg.Ready
    /\ \E k \in ToClear :
        /\ zoneState' = MapSet(zoneState, k, FALSE)
        /\ IF ZoneOf(k).Name # <<>>
           THEN /\ published' = Append(published, ZonePublish(ZoneOf(k).Name, "off"))
                /\ mpc' \in {"quiet", "returned"}
           ELSE UNCHANGED <<published, mpc>>
    /\ UNCHANGED <<zones, alarmState, processed>>
    /\ UNCHANGED <<parserVars, readerVars, writerVars, callbackVars>>

\* The iteration ends: the panel is not ready, or no zone is left to clear.
EndIteration ==
    /\ mpc = "quiet"
    /\ ~msg.Ready \/ ToClear = {}
    /\ processed' = processed + 1
    /\ mpc' = "loop"
    /\ UNCHANGED <<zones, alarmState, zoneState, published>>
    /\ UNCHANGED <<parserVars, readerVars, writerVars, callbackVars>>

RunNext ==
    \/ RunRead
    \/ TransportData
    \/ TransportEOF
    \/ TransportFails
    \/ TransportStalls
    \/ OnReadError
    \/ UpdateAlarm
    \/ HandleZone
    \/ ClearZone
    \/ EndIteration

SpecRun == RunInit /\ [][RunNext]_vars

----------------------------------------------------------------------------
(* C16..C19: the main loop.                                                *)

Last(seq) == seq[Len(seq)]

\* The payloads published on the state topic of the zone named name, and on
\* the alarm's state topic, in order.
IsZonePublish(p, name) == p.kind = "zone" /\ p.name = name
ZonePayloads(name) ==
    LET ps == SelectSeq(published, LAMBDA p : IsZonePublish(p, name)) IN
    [i \in 1..Len(ps) |-> ps[i].payload]
AlarmPayloads ==
    LET ps == SelectSeq(published, LAMBDA p : p.kind = "alarm") IN
    [i \in 1..Len(ps) |-> ps[i].payload]

\* C16: for every zone of the configuration that is enabled and named, the
\* zone's state topic never receives "on" twice without an "off" between.
C16_OnAtMostOnce ==
    \A code \in DOMAIN zones :
        (~zones[code].Disabled /\ zones[code].Name # <<>>)
            => LET ps == ZonePayloads(zones[code].Name) IN
               \A i \in 1..(Len(ps) - 1) : ~(ps[i] = "on" /\ ps[i + 1] = "on")

\* C17: the loop never publishes on a zone state topic built from the empty
\* name.
C17_NoEmptyZoneTopic ==
    \A i \in 1..Len(published) :
        published[i].kind = "zone" => published[i].name # <<>>

\* The alarm state the panel is in by a message: triggered if the alarm
\* sounds or has occurred, else armed_home, else armed_away, else pending if
\* the panel is not ready, else disarmed.
PanelState(m) ==
    CASE m.AlarmSounding \/ m.AlarmHasOccured -> "triggered"
      [] ~(m.AlarmSounding \/ m.AlarmHasOccured) /\ m.ArmedHome -> "armed_home"
      [] ~(m.AlarmSounding \/ m.AlarmHasOccured) /\ ~m.ArmedHome /\ m.ArmedAway
            -> "armed_away"
      [] OTHER -> IF ~m.Ready THEN "pending" ELSE "disarmed"

\* How many results of Read the loop has looked at: those it is done with
\* and the one it is dealing with.
Seen == IF mpc = "loop" THEN processed ELSE processed + 1

\* The panel states of the messages the loop has looked at, in order.
SeenStates ==
    LET oks == SelectSeq(SubSeq(out, 1, Seen), LAMBDA r : r.kind = "ok") IN
    [i \in 1..Len(oks) |-> PanelState(oks[i].msg)]

\* seq without the elements that repeat the one before them.
RECURSIVE Changes(_)
Changes(seq) ==
    IF Len(seq) <= 1 THEN seq
    ELSE LET front == Changes(SubSeq(seq, 1, Len(seq) - 1)) IN
         IF seq[Len(seq)] = seq[Len(seq) - 1] THEN front
         ELSE Append(front, seq[Len(seq)])

\* C18: the alarm state topic is published exactly when the panel state of
\* the message differs from the one last published: the publishes are the
\* panel states of the messages read, each repeat left out; no two
\* consecutive ones carry the same value, and the last one (also held in
\* alarmState) is the panel state of the last message read.
C18_AlarmStatePublished ==
    /\ AlarmPayloads = Changes(SeenStates)
    /\ \A i \in 1..(Len(AlarmPayloads) - 1) : AlarmPayloads[i] # AlarmPayloads[i + 1]
    /\ SeenStates # <<>>
        => /\ AlarmPayloads # <<>>
           /\ Last(AlarmPayloads) = Last(SeenStates)
           /\ alarmState = Last(SeenStates)

\* C18, its case: the panel was pending for two messages and then showed
\* every flag: pending was published once, then triggered.
C18_Witness ==
    /\ stream = Frames(<<PendingLine, PendingLine, AllFlagsLine>>)
    /\ processed = 3
    /\ SeenStates = <<"pending", "pending", "triggered">>
    /\ AlarmPayloads = <<"pending", "triggered">>

\* The errors of Read that stay: the end of the stream and the transport's.
StickyErrors == {EOF} \cup TransportErrors
ReadHasFailed == \E i \in 1..Len(out) : out[i].err \in StickyErrors

\* C19: when Read returns an error the loop goes on to the next Read with
\* alarmState, zoneState and the publishes as they were; once Read has
\* returned io.EOF or a transport error every later Read returns that
\* error, and from then on run neither returns nor publishes.
C19_ReadErrorOnlyLogged ==
    /\ [](\A i \in 1..Len(out) :
            out[i].err \in StickyErrors
                => \A j \in i..Len(out) : out[j] = ErrorResult(out[i].err))
    /\ [][(processed' # processed /\ Current.kind = "error")
            => (/\ UNCHANGED <<alarmState, zoneState, published>>
                /\ mpc = "loop"
                /\ mpc' = "loop")]_vars
    /\ [][ReadHasFailed
            => (/\ UNCHANGED <<alarmState, zoneState, published>>
                /\ mpc = "loop"
                /\ mpc' = "loop")]_vars

\* C19, its case: a message was handled and published, a line that does not
\* parse was passed over, then the transport failed and the loop has called
\* Read twice more, each returning the transport's error.
C19_Witness ==
    /\ stream = Frames(<<PendingLine, BadLine>>)
    /\ Len(out) = 4
    /\ processed = 4
    /\ mpc = "loop"
    /\ out[2] = ErrorResult(ErrParts)
    /\ out[3] = ErrorResult("EIO")
    /\ out[4] = ErrorResult("EIO")
    /\ Len(published) = 2
    /\ alarmState = "pending"

----------------------------------------------------------------------------
(* mqttCallback: a command from MQTT is turned into key presses.           *)

\* The payloads: bytes that are no JSON, a JSON value that is no object, and
\* objects whose members "action" and "code" are absent, numbers or strings.
ActionWords == {"ARM_HOME", "ARM_AWAY", "DISARM", "STATUS"}
None == <<"N", "o", "n", "e">>
Codes == {<<>>, None, <<"1", "2">>}
ActionMembers ==
    {ActionMember("absent", ""), ActionMember("number", "")}
    \cup {ActionMember("string", a) : a \in ActionWords}
CodeMembers ==
    {CodeMember("absent", <<>>), CodeMember("number", <<>>)}
    \cup {CodeMember("string", c) : c \in Codes}
Payloads ==
    {[json |-> j, action |-> ActionMember("absent", ""),
      code |-> CodeMember("absent", <<>>)] : j \in {"syntax error", "array"}}
    \cup {[json |-> "object", action |-> a, code |-> c] :
            a \in ActionMembers, c \in CodeMembers}

\* json.Unmarshal(value, &action): a syntax error or a value that is no
\* object leaves the struct zero; in an object each string member is stored,
\* a member of another type is skipped and makes the call return an error
\* after the other members are stored.
Unmarshal(p) ==
    IF p.json = "syntax error"
    THEN [Action |-> "", Code |-> <<>>, err |-> "SyntaxError"]
    ELSE IF p.json # "object"
    THEN [Action |-> "", Code |-> <<>>, err |-> "UnmarshalTypeError"]
    ELSE [Action |-> IF p.action.kind = "string" THEN p.action.val ELSE "",
          Code |-> IF p.code.kind = "string" THEN p.code.val ELSE <<>>,
          err |-> IF "number" \in {p.action.kind, p.code.kind}
                  THEN "UnmarshalTypeError" ELSE "nil"]

\* The arguments of the calls of ad.Write one call of mqttCallback makes. The
\* error of Unmarshal is logged and the action is looked at all the same.
Keys(p) ==
    LET action == Unmarshal(p) IN
    IF action.Action = "ARM_HOME" THEN << <<"#">>, <<"3">> >>
    ELSE IF action.Action = "ARM_AWAY" THEN << <<"#">>, <<"2">> >>
    ELSE IF action.Action = "DISARM"
    THEN IF action.Code = None THEN <<>>
         ELSE [i \in 1..Len(action.Code) |-> <<action.Code[i]>>] \o << <<"1">> >>
    ELSE <<>>

CallbackInit ==
    /\ s = <<>>
    /\ ret = NotCalled
    /\ ReaderUnused
    /\ WriterUnused
    /\ RunUnused
    /\ CallbackUnused

\* A command arrives: mqttCallback calls ad.Write for each key; the port
\* takes the writes or fails them, and the callback does not look.
MqttCallback ==
    /\ ncb < MaxCallbacks
    /\ \E p \in Payloads, e \in WriteErrors :
        LET keys == Keys(p) IN
        /\ cb' = [payload |-> p, wrote |-> keys]
        /\ wargs' = wargs \o keys
        /\ wcalls' = wcalls \o [i \in 1..Len(keys) |-> Forwarded(keys[i])]
        /\ werrs' = werrs \o [i \in 1..Len(keys) |-> e]
        /\ wrets' = wrets \o [i \in 1..Len(keys) |-> WriteReturn(e)]
    /\ ncb' = ncb + 1
    /\ UNCHANGED <<parserVars, readerVars, runVars>>

CallbackNext == MqttCallback

SpecCallback == CallbackInit /\ [][CallbackNext]_vars

\* The keys a command stands for: "#", "3" for ARM_HOME, "#", "2" for
\* ARM_AWAY, the code's characters and "1" for DISARM with a code; none for
\* DISARM with the code "None", empty or missing, for another action, and
\* for a payload that is no JSON object.
CommandKeys(p) ==
    LET action == IF p.action.kind = "string" THEN p.action.val ELSE ""
        code == IF p.code.kind = "string" THEN p.code.val ELSE <<>>
    IN  IF p.json # "object" THEN <<>>
        ELSE IF action = "ARM_HOME" THEN << <<"#">>, <<"3">> >>
        ELSE IF action = "ARM_AWAY" THEN << <<"#">>, <<"2">> >>
        ELSE IF action = "DISARM" /\ code \notin {None, <<>>}
        THEN [i \in 1..Len(code) |-> <<code[i]>>] \o << <<"1">> >>
        ELSE <<>>

\* C20: the bytes a call of mqttCallback writes to the device are the keys
\* its command stands for, and nothing for a DISARM without a code.
C20_CallbackBytes ==
    ncb > 0 => cb.wrote = CommandKeys(cb.payload)

====
